---- MODULE Spec2Model ----
(***************************************************************************)
(* Model of the card_dealer crate: Deck, Hand evaluation, Player, Table    *)
(* (pots and the bet ledger) and GameController.                           *)
(***************************************************************************)
EXTENDS Integers, Sequences, FiniteSets, TLC

(***************************************************************************)
(* Cards (card_dealer.rs).  Rank and Suit are the enum discriminants that  *)
(* the code obtains with `as usize`.                                       *)
(***************************************************************************)
Ranks == 0..12
Suits == 0..3

Card(r, s) == [rank |-> r, suit |-> s]

\* Deck::new before the shuffle: suits outermost, ranks Two..Ace innermost.
OrderedDeck == [i \in 1..52 |-> Card((i - 1) % 13, (i - 1) \div 13)]

(***************************************************************************)
(* Hand ranks (poker_hand.rs), the derived Ord of the enum HandRank.       *)
(***************************************************************************)
HighCard == 0
OnePair == 1
TwoPair == 2
ThreeOfAKind == 3
Straight == 4
Flush == 5
FullHouse == 6
FourOfAKind == 7
StraightFlush == 8

Cmp(a, b) == IF a < b THEN "Less" ELSE IF a > b THEN "Greater" ELSE "Equal"

\* cards.sort_by(|a, b| b.rank.cmp(&a.rank)) inserts one element into an
\* already sorted prefix; the sort is stable, so the new element goes after
\* every element of rank greater than or equal to its own.
SortInsert(sorted, c) ==
    LET k == Cardinality({i \in 1..Len(sorted) : sorted[i].rank >= c.rank})
    IN  SubSeq(sorted, 1, k) \o <<c>> \o SubSeq(sorted, k + 1, Len(sorted))

RECURSIVE SortDesc(_)
SortDesc(cards) ==
    IF cards = <<>> THEN <<>>
    ELSE SortInsert(SortDesc(SubSeq(cards, 1, Len(cards) - 1)), cards[Len(cards)])

\* suits[card.suit as usize] += 1 over a vec![0; 4]; index s + 1 holds suit s.
count_suits(hand) ==
    LET n(s) == Cardinality({i \in 1..Len(hand) : hand[i].suit = s})
    IN  <<n(0), n(1), n(2), n(3)>>

\* ranks[card.rank as usize] += 1 over a vec![0; 13]; index r + 1 holds rank r.
count_ranks(hand) ==
    LET n(r) == Cardinality({i \in 1..Len(hand) : hand[i].rank = r})
    IN  <<n(0), n(1), n(2), n(3), n(4), n(5), n(6), n(7), n(8), n(9), n(10),
          n(11), n(12)>>

check_flush(suits) == \E s \in 1..Len(suits) : suits[s] = 5

\* The loop of check_straight from position r of the counts on, with
\* `consecutive` the length of the current run of ranks that occur.
RECURSIVE StraightLoop(_, _, _)
StraightLoop(ranks, r, consecutive) ==
    IF r > Len(ranks) THEN FALSE
    ELSE IF ranks[r] > 0
         THEN IF consecutive + 1 = 5 THEN TRUE
              ELSE StraightLoop(ranks, r + 1, consecutive + 1)
         ELSE StraightLoop(ranks, r + 1, 0)

\* Mutant of check_straight: the ace also counts as the rank below Two.
check_straight_ace_low(ranks) ==
    \/ StraightLoop(ranks, 1, 0)
    \/ ranks[13] > 0 /\ \A r \in 1..4 : ranks[r] > 0

check_straight(ranks) == StraightLoop(ranks, 1, 0)

\* ranks.contains(&n)
ContainsCount(ranks, n) == \E r \in 1..Len(ranks) : ranks[r] = n

evaluate_hand(hand) ==
    LET suits == count_suits(hand)
        ranks == count_ranks(hand)
        is_flush == check_flush(suits)
        is_straight == check_straight(ranks)
    IN  IF is_flush /\ is_straight THEN StraightFlush
        ELSE IF ContainsCount(ranks, 4) THEN FourOfAKind
        ELSE IF ContainsCount(ranks, 3) /\ ContainsCount(ranks, 2) THEN FullHouse
        ELSE IF is_flush /\ ~is_straight THEN Flush
        ELSE IF ~is_flush /\ is_straight THEN Straight
        ELSE IF ContainsCount(ranks, 3) THEN ThreeOfAKind
        ELSE IF Cardinality({r \in 1..Len(ranks) : ranks[r] = 2}) = 2 THEN TwoPair
        ELSE IF ContainsCount(ranks, 2) THEN OnePair
        ELSE HighCard

\* Hand::new
NewHand(cards) ==
    LET sorted == SortDesc(cards)
    IN  [cards |-> sorted, rank |-> evaluate_hand(sorted)]

\* The zip loop of compare_two_hands from position i on.
RECURSIVE CompareKickers(_, _, _)
CompareKickers(a, b, i) ==
    IF i > Len(a) \/ i > Len(b) THEN "Equal"
    ELSE IF a[i].rank = b[i].rank THEN CompareKickers(a, b, i + 1)
    ELSE Cmp(a[i].rank, b[i].rank)

compare_two_hands(self, other) ==
    IF self.rank # other.rank THEN Cmp(self.rank, other.rank)
    ELSE CompareKickers(SortDesc(self.cards), SortDesc(other.cards), 1)

\* itertools combinations(k) over positions lo..n, in the order itertools
\* yields them (lexicographic in the positions).
RECURSIVE Combinations(_, _, _)
Combinations(lo, n, k) ==
    IF k = 0 THEN << <<>> >>
    ELSE IF n - lo + 1 < k THEN <<>>
    ELSE LET with == Combinations(lo + 1, n, k - 1)
         IN  [j \in 1..Len(with) |-> <<lo>> \o with[j]]
             \o Combinations(lo + 1, n, k)

\* The .map(...) of find_best_hand: the Hand of every combination from
\* index j on.
RECURSIVE CombinationHands(_, _, _)
CombinationHands(cards, combos, j) ==
    IF j > Len(combos) THEN <<>>
    ELSE LET c == combos[j]
         IN  <<NewHand(<<cards[c[1]], cards[c[2]], cards[c[3]], cards[c[4]],
                         cards[c[5]]>>)>>
             \o CombinationHands(cards, combos, j + 1)

\* Mutant of MaxBy: the hands are compared by their category alone.
RECURSIVE MaxByCategoryOnly(_, _, _)
MaxByCategoryOnly(hands, j, best) ==
    IF j > Len(hands) THEN hands[best]
    ELSE MaxByCategoryOnly(hands, j + 1,
                           IF hands[best].rank > hands[j].rank THEN best ELSE j)

\* Iterator::max_by from index j on, with `best` the index of the maximum
\* so far: the last of several equally maximal elements wins.
RECURSIVE MaxBy(_, _, _)
MaxBy(hands, j, best) ==
    IF j > Len(hands) THEN hands[best]
    ELSE MaxBy(hands, j + 1,
               IF compare_two_hands(hands[best], hands[j]) = "Greater"
               THEN best ELSE j)

find_best_hand(cards) ==
    LET hands == CombinationHands(cards, Combinations(1, Len(cards), 5), 1)
    IN  IF Len(hands) = 0 THEN NewHand(<<>>) ELSE MaxBy(hands, 2, 1)

(***************************************************************************)
(* Option<T>                                                               *)
(***************************************************************************)
None == [is_some |-> FALSE]
Some(v) == [is_some |-> TRUE, value |-> v]

Range(f) == {f[i] : i \in DOMAIN f}
Min(a, b) == IF a <= b THEN a ELSE b

(***************************************************************************)
(* Bounds of the model.                                                    *)
(***************************************************************************)
\* Number of deck orders Deck::new may produce in the model.
NumShuffles == 3
\* add_bet calls per betting round under SpecTable / under Spec.
MaxBets == 5
MaxGameBets == 3
\* Cards that may have left the deck before a further deal is started.
MaxDealt == 7
\* Deck::deal calls on a deck of its own before it is reset (SpecDeck).
MaxDeals == 3
\* Number of deck orders under SpecHand.
NumHandDecks == 22
\* Deals that may fail, and bets placed before the first deal, under
\* SpecDealOut.
MaxFailedDeals == 1
MaxDealOutBets == 2
\* HTTP requests that may be in flight at once under SpecHttp.
NumRequests == 2

PlayerIds == {"1", "2", "3"}
BetAmounts == {0, 100, 200}
GameBetAmounts == {100}
\* The players that bet under Spec.
GameBettors == {"1", "2"}

\* The players main.rs initialises the controller with.
MainPlayers == <<"1", "2", "3">>

(***************************************************************************)
(* Deck::new: the 52 cards in some shuffled order.  The model draws the    *)
(* order from Shuffle(1..NumShuffles).                                     *)
(***************************************************************************)
Then52(prefix) ==
    prefix \o SelectSeq(OrderedDeck, LAMBDA c : c \notin Range(prefix))

\* hole cards A K / A Q / 3 5 and board A 7 4 9 2: two pairs of aces that
\* differ in the kicker only.
KickerDeal ==
    << Card(12, 3), Card(11, 1), Card(12, 0), Card(10, 1), Card(1, 1), Card(3, 3),
       Card(12, 2), Card(5, 1), Card(2, 3), Card(7, 0), Card(0, 2) >>

\* hole cards A K / A K / 2 3 and board A K 7 8 9: two equal two-pair hands.
TieDeal ==
    << Card(12, 3), Card(11, 3), Card(12, 1), Card(11, 1), Card(0, 2), Card(1, 1),
       Card(12, 0), Card(11, 0), Card(5, 2), Card(6, 1), Card(7, 3) >>

Shuffle(k) ==
    IF k = 1 THEN Then52(KickerDeal)
    ELSE IF k = 2 THEN Then52(TieDeal)
    ELSE [i \in 1..52 |-> OrderedDeck[((7 * i + 5 * k) % 52) + 1]]

Shuffles == {Shuffle(k) : k \in 1..NumShuffles}

\* The counts Deck::deal is called with under SpecDeck.
DealCounts == {0, 1, 2, 5, 26, 52, 53}

(***************************************************************************)
(* The deck orders of SpecHand.  The first five cards of a deck are the    *)
(* board when the community cards are dealt first; when the hole cards are *)
(* dealt first, cards 1..6 are the hole cards and cards 7..11 the board.   *)
(* Suits: 0 hearts, 1 diamonds, 2 clubs, 3 spades; ranks: 0 is Two, 12 Ace.*)
(***************************************************************************)
CraftedDeals ==
    << \* A 2 3 4 5 of mixed suits, and of spades
       << Card(12, 3), Card(0, 1), Card(1, 2), Card(2, 0), Card(3, 1) >>,
       << Card(12, 3), Card(0, 3), Card(1, 3), Card(2, 3), Card(3, 3) >>,
       \* 10 J Q K A and 9 10 J Q K of spades
       << Card(8, 3), Card(9, 3), Card(10, 3), Card(11, 3), Card(12, 3) >>,
       << Card(7, 3), Card(8, 3), Card(9, 3), Card(10, 3), Card(11, 3) >>,
       \* 7 7 7 7 K
       << Card(5, 3), Card(5, 1), Card(5, 2), Card(5, 0), Card(11, 1) >>,
       \* 2 2 2 5 5
       << Card(0, 3), Card(0, 1), Card(0, 2), Card(3, 0), Card(3, 1) >>,
       \* 2 5 9 J K of hearts
       << Card(0, 0), Card(3, 0), Card(7, 0), Card(9, 0), Card(11, 0) >>,
       \* 5 6 7 8 9 of mixed suits
       << Card(3, 3), Card(4, 1), Card(5, 2), Card(6, 0), Card(7, 1) >>,
       \* Q K A 2 3 of mixed suits
       << Card(10, 3), Card(11, 1), Card(12, 2), Card(0, 0), Card(1, 1) >>,
       \* 9 9 9 4 J
       << Card(7, 3), Card(7, 1), Card(7, 2), Card(2, 0), Card(9, 1) >>,
       \* A A K K 2
       << Card(12, 3), Card(12, 1), Card(11, 2), Card(11, 0), Card(0, 3) >>,
       \* 8 8 3 J Q
       << Card(6, 3), Card(6, 1), Card(1, 2), Card(9, 0), Card(10, 1) >>,
       \* 2 5 9 J A of mixed suits
       << Card(0, 3), Card(3, 1), Card(7, 2), Card(9, 0), Card(12, 3) >>,
       \* hole cards A 3 / J 6 / Q 5 and board K 9 7 4 2: three high-card hands
       << Card(12, 3), Card(1, 1), Card(9, 2), Card(4, 0), Card(10, 0), Card(3, 2),
          Card(11, 1), Card(7, 3), Card(5, 0), Card(2, 2), Card(0, 1) >>,
       \* hole cards 10 J / A 2 of spades / 9 4 of spades and board 5 6 7 K of
       \* spades and 8 of diamonds: six spades twice, once with a straight
       << Card(8, 2), Card(9, 0), Card(12, 3), Card(0, 3), Card(7, 3), Card(2, 3),
          Card(3, 3), Card(4, 3), Card(5, 3), Card(11, 3), Card(6, 1) >>,
       \* hole cards 2 A / K 7 / 2 2 and board K K 7 7 2: two pairs out of
       \* three, and two full houses
       << Card(0, 2), Card(12, 0), Card(11, 2), Card(5, 1), Card(0, 3), Card(0, 0),
          Card(11, 3), Card(11, 1), Card(5, 2), Card(5, 0), Card(0, 1) >> >>

\* The crafted cards, then the other cards in the order of Shuffle(3).
ThenShuffled(prefix) ==
    prefix \o SelectSeq(Shuffle(3), LAMBDA c : c \notin Range(prefix))

\* Steps of the other orders: odd and no multiple of 13, so that each order
\* is a permutation of the 52 cards.
AffineSteps == <<5, 9, 11, 17, 19, 1, 27, 15, 3, 21, 23, 25>>

HandDeck(k) ==
    IF k <= Len(CraftedDeals) THEN ThenShuffled(CraftedDeals[k])
    ELSE LET a == AffineSteps[(k % Len(AffineSteps)) + 1]
         IN  [i \in 1..52 |-> OrderedDeck[((a * i + 3 * k) % 52) + 1]]

HandDecks == {HandDeck(k) : k \in 1..NumHandDecks}

VARIABLES
    overflow_checks,  \* build profile: "on" = an arithmetic overflow panics,
                      \* "off" = it wraps, "either" = no overflow has happened
                      \* yet, so the run is one of either build
    panicked,         \* a call has panicked
    deck,             \* GameController.deck.cards
    community_cards,  \* GameController.community_cards
    players,          \* GameController.players
    table,            \* GameController.table
    bet_log,          \* history: the add_bet calls since the table was new or reset
    deal_log,         \* history: the Deck::deal calls since the deck was new or
                      \* reset, each with its count and the value it returned
    mutex,            \* AppState.game_controller: the request whose handler
                      \* holds the lock, or Unlocked
    requests          \* the HTTP requests in flight: the route of each and the
                      \* point its handler has reached

vars == <<overflow_checks, panicked, deck, community_cards, players, table, bet_log,
          deal_log, mutex, requests>>

\* The variables of the HTTP server, which the calls themselves leave alone.
http == <<mutex, requests>>

(***************************************************************************)
(* Player (player.rs).  chip_stack, display_name, table_position and the   *)
(* action history play no part in dealing, evaluation or pots and are left *)
(* out.                                                                    *)
(***************************************************************************)
NewPlayer(id) ==
    [player_id |-> id, hole_cards |-> <<>>, hand_strength |-> None,
     best_hand |-> None, is_sitting_out |-> FALSE, is_in_play |-> TRUE]

Player_evaluate_hand(p, community) ==
    LET best == find_best_hand(p.hole_cards \o community)
    IN  [p EXCEPT !.best_hand = Some(best), !.hand_strength = Some(best.rank)]

Player_fold(p) == [p EXCEPT !.is_in_play = FALSE, !.hole_cards = <<>>]

Player_sit_out(p) ==
    [p EXCEPT !.is_sitting_out = TRUE, !.is_in_play = FALSE, !.hole_cards = <<>>]

\* Mutant of Player_reset_for_new_hand: the hole cards are kept.
Player_reset_keeps_hole_cards(p) ==
    [p EXCEPT !.is_in_play = ~p.is_sitting_out, !.hand_strength = None]

Player_reset_for_new_hand(p) ==
    [p EXCEPT !.hole_cards = <<>>, !.is_in_play = ~p.is_sitting_out,
              !.hand_strength = None]

(***************************************************************************)
(* Table (table.rs)                                                        *)
(***************************************************************************)
\* HashMap::new()
EmptyLedger == [k \in {} |-> 0]

NewTable ==
    [community_cards |-> <<>>, pots |-> <<>>, player_bets |-> EmptyLedger,
     min_bet |-> 0, max_bet |-> 0]

\* self.player_bets.get(player_id).copied().unwrap_or(0)
BetOf(player_bets, id) == IF id \in DOMAIN player_bets THEN player_bets[id] ELSE 0

active_players(t) == DOMAIN t.player_bets

\* The loop of add_bet over the pots from index i on.  `max_bet - bet` is a
\* u32 subtraction: when bet exceeds max_bet it panics under overflow checks
\* and otherwise wraps to 2^32 - (bet - max_bet), which is larger than any
\* remaining amount the model can hold, so the minimum is the remainder.
\* `overflow` in the result says that the subtraction overflowed.
RECURSIVE AddBetLoop(_, _, _, _, _, _, _)
AddBetLoop(pots, i, remaining, id, bet, max_bet, checks) ==
    IF i > Len(pots) \/ remaining = 0
    THEN [pots |-> pots, remaining |-> remaining, overflow |-> FALSE, panic |-> FALSE]
    ELSE IF id \notin pots[i].eligible_players
    THEN AddBetLoop(pots, i + 1, remaining, id, bet, max_bet, checks)
    ELSE IF max_bet < bet /\ checks
    THEN [pots |-> pots, remaining |-> remaining, overflow |-> TRUE, panic |-> TRUE]
    ELSE LET contribution ==
                 IF max_bet < bet THEN remaining ELSE Min(remaining, max_bet - bet)
             rest == AddBetLoop([pots EXCEPT ![i].total = @ + contribution],
                                i + 1, remaining - contribution, id, bet, max_bet,
                                checks)
         IN  [rest EXCEPT !.overflow = @ \/ max_bet < bet]

\* Mutant of add_bet: a new pot is put in front of the existing ones.
add_bet_pushes_front(t, player_id, amount, checks) ==
    LET loop == AddBetLoop(t.pots, 1, amount, player_id,
                           BetOf(t.player_bets, player_id), t.max_bet, checks)
        pushed == IF loop.remaining > 0
                  THEN <<[total |-> loop.remaining,
                          eligible_players |-> active_players(t),
                          winners |-> None]>> \o loop.pots
                  ELSE loop.pots
        ledger == [k \in DOMAIN t.player_bets \cup {player_id} |->
                      BetOf(t.player_bets, k) + (IF k = player_id THEN amount ELSE 0)]
    IN  IF loop.panic
        THEN [table |-> [t EXCEPT !.pots = loop.pots],
              overflow |-> TRUE, panic |-> TRUE]
        ELSE [table |-> [t EXCEPT !.pots = pushed, !.player_bets = ledger],
              overflow |-> loop.overflow, panic |-> FALSE]

\* Table::add_bet; the result is the table afterwards and whether the call
\* panicked instead of returning.
add_bet(t, player_id, amount, checks) ==
    LET loop == AddBetLoop(t.pots, 1, amount, player_id,
                           BetOf(t.player_bets, player_id), t.max_bet, checks)
        pushed == IF loop.remaining > 0
                  THEN Append(loop.pots,
                              [total |-> loop.remaining,
                               eligible_players |-> active_players(t),
                               winners |-> None])
                  ELSE loop.pots
        ledger == [k \in DOMAIN t.player_bets \cup {player_id} |->
                      BetOf(t.player_bets, k) + (IF k = player_id THEN amount ELSE 0)]
    IN  IF loop.panic
        THEN [table |-> [t EXCEPT !.pots = loop.pots],
              overflow |-> TRUE, panic |-> TRUE]
        ELSE [table |-> [t EXCEPT !.pots = pushed, !.player_bets = ledger],
              overflow |-> loop.overflow, panic |-> FALSE]

reset_for_new_round(t) ==
    [t EXCEPT !.community_cards = <<>>, !.pots = <<>>, !.player_bets = EmptyLedger,
              !.min_bet = 0, !.max_bet = 0]

(***************************************************************************)
(* Deck (card_dealer.rs)                                                   *)
(***************************************************************************)
\* Mutant of Deck_deal: a deal of all the remaining cards fails.
Deck_deal_keeps_one(d, count) ==
    IF count >= Len(d)
    THEN [cards |-> None, deck |-> d]
    ELSE [cards |-> Some(SubSeq(d, 1, count)),
          deck |-> SubSeq(d, count + 1, Len(d))]

\* Mutant of Deck_deal: one card more than asked for is dealt.
Deck_deal_one_more(d, count) ==
    IF count + 1 > Len(d)
    THEN [cards |-> None, deck |-> d]
    ELSE [cards |-> Some(SubSeq(d, 1, count + 1)),
          deck |-> SubSeq(d, count + 2, Len(d))]

\* Deck::deal: the cards returned and the deck afterwards.
Deck_deal(d, count) ==
    IF count > Len(d)
    THEN [cards |-> None, deck |-> d]
    ELSE [cards |-> Some(SubSeq(d, 1, count)),
          deck |-> SubSeq(d, count + 1, Len(d))]

Deck_remaining(d) == Len(d)

\* Mutant of Deck_reset: the cards that remain are kept as the deck.
Deck_reset_keeps_remaining(d) == {d}

\* Deck::reset: *self = Self::new(), one of the orders Deck::new may produce.
Deck_reset(d) == Shuffles

\* The entry of deal_log for one call of Deck::deal.
DealEntry(d, count) == [count |-> count, cards |-> Deck_deal(d, count).cards]

(***************************************************************************)
(* GameController (game_controller.rs)                                     *)
(***************************************************************************)
initialize_players(player_data) ==
    [i \in 1..Len(player_data) |-> NewPlayer(player_data[i])]

\* The loop of deal_hole_cards from player i on.
RECURSIVE DealHoleLoop(_, _, _)
DealHoleLoop(ps, d, i) ==
    IF i > Len(ps) THEN [players |-> ps, deck |-> d, result |-> "Ok"]
    ELSE LET dealt == Deck_deal(d, 2)
         IN  IF dealt.cards.is_some
             THEN DealHoleLoop([ps EXCEPT ![i].hole_cards = dealt.cards.value],
                               dealt.deck, i + 1)
             ELSE [players |-> ps, deck |-> d, result |-> "Err"]

\* The Deck::deal calls that the loop of deal_hole_cards makes for n players.
RECURSIVE DealHoleLog(_, _)
DealHoleLog(d, n) ==
    IF n = 0 THEN <<>>
    ELSE <<DealEntry(d, 2)>>
         \o (IF Deck_deal(d, 2).cards.is_some
             THEN DealHoleLog(Deck_deal(d, 2).deck, n - 1) ELSE <<>>)

\* Mutant of GetWinnersLoop: a hand that ties the best one replaces the
\* winners found so far instead of joining them.
RECURSIVE GetWinnersLoopTieReplaces(_, _, _, _, _)
GetWinnersLoopTieReplaces(ps, player_pool, i, best_hand_rank, winners) ==
    IF i > Len(ps) THEN winners
    ELSE IF ps[i].player_id \notin player_pool \/ ~ps[i].best_hand.is_some
    THEN GetWinnersLoopTieReplaces(ps, player_pool, i + 1, best_hand_rank, winners)
    ELSE LET hand == ps[i].best_hand.value
         IN  IF hand.rank >= best_hand_rank
             THEN GetWinnersLoopTieReplaces(ps, player_pool, i + 1, hand.rank,
                                            <<ps[i].player_id>>)
             ELSE GetWinnersLoopTieReplaces(ps, player_pool, i + 1, best_hand_rank,
                                            winners)

\* Mutant of GetWinnersLoop: the pool is not consulted.
RECURSIVE GetWinnersLoopIgnoresPool(_, _, _, _, _)
GetWinnersLoopIgnoresPool(ps, player_pool, i, best_hand_rank, winners) ==
    IF i > Len(ps) THEN winners
    ELSE IF ~ps[i].best_hand.is_some
    THEN GetWinnersLoopIgnoresPool(ps, player_pool, i + 1, best_hand_rank, winners)
    ELSE LET hand == ps[i].best_hand.value
         IN  IF hand.rank > best_hand_rank
             THEN GetWinnersLoopIgnoresPool(ps, player_pool, i + 1, hand.rank,
                                            <<ps[i].player_id>>)
             ELSE IF hand.rank = best_hand_rank
             THEN GetWinnersLoopIgnoresPool(ps, player_pool, i + 1, best_hand_rank,
                                            Append(winners, ps[i].player_id))
             ELSE GetWinnersLoopIgnoresPool(ps, player_pool, i + 1, best_hand_rank,
                                            winners)

\* The loop of get_winners over the players from index i on.
RECURSIVE GetWinnersLoop(_, _, _, _, _)
GetWinnersLoop(ps, player_pool, i, best_hand_rank, winners) ==
    IF i > Len(ps) THEN winners
    ELSE IF ps[i].player_id \notin player_pool \/ ~ps[i].best_hand.is_some
    THEN GetWinnersLoop(ps, player_pool, i + 1, best_hand_rank, winners)
    ELSE LET hand == ps[i].best_hand.value
         IN  IF hand.rank > best_hand_rank
             THEN GetWinnersLoop(ps, player_pool, i + 1, hand.rank,
                                 <<ps[i].player_id>>)
             ELSE IF hand.rank = best_hand_rank
             THEN GetWinnersLoop(ps, player_pool, i + 1, best_hand_rank,
                                 Append(winners, ps[i].player_id))
             ELSE GetWinnersLoop(ps, player_pool, i + 1, best_hand_rank, winners)

\* Mutant of get_winners: an empty list is returned as a successful result.
get_winners_empty_is_some(ps, player_pool) ==
    Some(GetWinnersLoop(ps, player_pool, 1, HighCard, <<>>))

get_winners(ps, player_pool) ==
    LET winners == GetWinnersLoop(ps, player_pool, 1, HighCard, <<>>)
    IN  IF winners = <<>> THEN None ELSE Some(winners)

\* Mutant of resolve_pots: the winners of earlier pots are out of contention
\* for the later ones.
RECURSIVE ResolveCascade(_, _, _, _)
ResolveCascade(ps, pots, i, out) ==
    IF i > Len(pots) THEN pots
    ELSE LET w == get_winners(ps, pots[i].eligible_players \ out)
         IN  ResolveCascade(ps, [pots EXCEPT ![i].winners = w], i + 1,
                            out \cup (IF w.is_some THEN Range(w.value) ELSE {}))

resolve_pots_cascading(ps, pots) == ResolveCascade(ps, pots, 1, {})

\* Mutant of resolve_pots: the players that lost a pot are struck from its
\* eligible players.
resolve_pots_strikes_losers(ps, pots) ==
    [i \in 1..Len(pots) |->
        LET w == get_winners(ps, pots[i].eligible_players)
        IN  [pots[i] EXCEPT !.winners = w,
                            !.eligible_players =
                                IF w.is_some THEN Range(w.value) ELSE @]]

resolve_pots(ps, pots) ==
    [i \in 1..Len(pots) |->
        [pots[i] EXCEPT !.winners = get_winners(ps, pots[i].eligible_players)]]

\* The loop of evaluate_player_hands from player i on.
RECURSIVE EvaluateLoop(_, _, _)
EvaluateLoop(ps, community, i) ==
    IF i > Len(ps) THEN <<>>
    ELSE <<Player_evaluate_hand(ps[i], community)>> \o EvaluateLoop(ps, community, i + 1)

EvaluateAll(ps, community) == EvaluateLoop(ps, community, 1)

(***************************************************************************)
(* The HTTP server (main.rs): a request is handled by the closure of its   *)
(* route, which locks AppState.game_controller first.                      *)
(***************************************************************************)
Requests == 1..NumRequests
Routes == {"deal_hole", "deal_community", "reset", "evaluate", "test_winners"}

\* The value of mutex when no handler holds the lock.
Unlocked == 0

\* A request slot that no handler is running for.
IdleRequest == [route |-> "none", pc |-> "idle"]

(***************************************************************************)
(* The state after main.rs has built the controller and initialised its    *)
(* players.                                                                *)
(***************************************************************************)
Init ==
    /\ overflow_checks = "either"
    /\ panicked = FALSE
    /\ deck \in Shuffles
    /\ community_cards = <<>>
    /\ players = initialize_players(MainPlayers)
    /\ table = NewTable
    /\ bet_log = <<>>
    /\ deal_log = <<>>
    /\ mutex = Unlocked
    /\ requests = [r \in Requests |-> IdleRequest]

\* GameController::deal_hole_cards, one whole call.
deal_hole_cards ==
    /\ ~panicked
    /\ LET r == DealHoleLoop(players, deck, 1)
       IN  /\ players' = r.players
           /\ deck' = r.deck
    /\ deal_log' = deal_log \o DealHoleLog(deck, Len(players))
    /\ UNCHANGED <<http, overflow_checks, panicked, community_cards, table, bet_log>>

\* Mutant of deal_community_cards: the pots are resolved before the players
\* are evaluated.
deal_community_cards_resolves_first ==
    /\ ~panicked
    /\ LET dealt == Deck_deal(deck, 5)
       IN  IF dealt.cards.is_some
           THEN /\ deck' = dealt.deck
                /\ community_cards' = dealt.cards.value
                /\ table' = [table EXCEPT !.pots = resolve_pots(players, table.pots)]
                /\ players' = EvaluateAll(players, community_cards')
           ELSE UNCHANGED <<deck, community_cards, players, table>>
    /\ deal_log' = Append(deal_log, DealEntry(deck, 5))
    /\ UNCHANGED <<http, overflow_checks, panicked, bet_log>>

\* GameController::deal_community_cards, one whole call: on success the
\* players are evaluated and the pots resolved before it returns.
deal_community_cards ==
    /\ ~panicked
    /\ LET dealt == Deck_deal(deck, 5)
       IN  IF dealt.cards.is_some
           THEN /\ deck' = dealt.deck
                /\ community_cards' = dealt.cards.value
                /\ players' = EvaluateAll(players, community_cards')
                /\ table' = [table EXCEPT !.pots = resolve_pots(players', table.pots)]
           ELSE UNCHANGED <<deck, community_cards, players, table>>
    /\ deal_log' = Append(deal_log, DealEntry(deck, 5))
    /\ UNCHANGED <<http, overflow_checks, panicked, bet_log>>

\* The deals of Spec, SpecDeal and SpecHand stop once MaxDealt cards have left
\* the deck.
DealHoleCards ==
    /\ 52 - Len(deck) < MaxDealt
    /\ deal_hole_cards

DealCommunityCards ==
    /\ 52 - Len(deck) < MaxDealt
    /\ deal_community_cards

ResetDeck ==
    /\ ~panicked
    /\ deck' \in Deck_reset(deck)
    /\ deal_log' = <<>>
    /\ community_cards' = <<>>
    /\ players' = [i \in 1..Len(players) |-> Player_reset_for_new_hand(players[i])]
    /\ UNCHANGED <<http, overflow_checks, panicked, table, bet_log>>

EvaluatePlayerHands ==
    /\ ~panicked
    /\ players' = EvaluateAll(players, community_cards)
    /\ table' = [table EXCEPT !.pots = resolve_pots(players', table.pots)]
    /\ UNCHANGED <<http, overflow_checks, panicked, deck, community_cards, bet_log, deal_log>>

ResolvePots ==
    /\ ~panicked
    /\ table' = [table EXCEPT !.pots = resolve_pots(players, table.pots)]
    /\ UNCHANGED <<http, overflow_checks, panicked, deck, community_cards, players, bet_log,
                   deal_log>>

\* get_table_mut().add_bet(player_id, amount).  The first overflow settles
\* which build the run is of.
AddBet(player_id, amount) ==
    /\ ~panicked
    /\ \E checks \in BOOLEAN :
        /\ overflow_checks = "on" => checks
        /\ overflow_checks = "off" => ~checks
        /\ LET r == add_bet(table, player_id, amount, checks)
           IN  /\ table' = r.table
               /\ panicked' = r.panic
               /\ overflow_checks' =
                      IF r.overflow THEN (IF checks THEN "on" ELSE "off")
                      ELSE overflow_checks
    /\ bet_log' = Append(bet_log, <<player_id, amount>>)
    /\ UNCHANGED <<http, deck, community_cards, players, deal_log>>

\* get_table_mut().reset_for_new_round()
ResetForNewRound ==
    /\ ~panicked
    /\ table' = reset_for_new_round(table)
    /\ bet_log' = <<>>
    /\ UNCHANGED <<http, overflow_checks, panicked, deck, community_cards, players, deal_log>>

Fold ==
    \E i \in 1..Len(players) :
        /\ ~panicked
        /\ players' = [players EXCEPT ![i] = Player_fold(@)]
        /\ UNCHANGED <<http, overflow_checks, panicked, deck, community_cards, table, bet_log,
                       deal_log>>

SitOut ==
    \E i \in 1..Len(players) :
        /\ ~panicked
        /\ players' = [players EXCEPT ![i] = Player_sit_out(@)]
        /\ UNCHANGED <<http, overflow_checks, panicked, deck, community_cards, table, bet_log,
                       deal_log>>

GameAddBet ==
    \E player_id \in GameBettors, amount \in GameBetAmounts :
        /\ Len(bet_log) < MaxGameBets
        /\ AddBet(player_id, amount)

TableAddBet ==
    \E player_id \in PlayerIds, amount \in BetAmounts :
        /\ Len(bet_log) < MaxBets
        /\ AddBet(player_id, amount)

(***************************************************************************)
(* Spec: the operations a caller reaches through GameController.           *)
(***************************************************************************)
Next ==
    \/ DealHoleCards
    \/ DealCommunityCards
    \/ ResetDeck
    \/ EvaluatePlayerHands
    \/ ResolvePots
    \/ GameAddBet
    \/ ResetForNewRound

Spec == Init /\ [][Next]_vars

(***************************************************************************)
(* SpecTable: a Table on its own, under add_bet and reset_for_new_round.   *)
(***************************************************************************)
InitTable == Init /\ deck = Shuffle(1)

NextTable ==
    \/ TableAddBet
    \/ ResetForNewRound

SpecTable == InitTable /\ [][NextTable]_vars

(***************************************************************************)
(* SpecDeal: dealing, resetting and initialising, without bets.            *)
(***************************************************************************)
InitializePlayers ==
    /\ ~panicked
    /\ players' = initialize_players(MainPlayers)
    /\ UNCHANGED <<http, overflow_checks, panicked, deck, community_cards, table, bet_log,
                   deal_log>>

NextDeal ==
    \/ DealHoleCards
    \/ DealCommunityCards
    \/ ResetDeck
    \/ InitializePlayers

SpecDeal == Init /\ [][NextDeal]_vars

(***************************************************************************)
(* SpecDeck: a Deck on its own, under deal and reset.                      *)
(***************************************************************************)
DeckDeal ==
    \E count \in DealCounts :
        /\ Len(deal_log) < MaxDeals
        /\ deck' = Deck_deal(deck, count).deck
        /\ deal_log' = Append(deal_log, DealEntry(deck, count))
        /\ UNCHANGED <<http, overflow_checks, panicked, community_cards, players, table,
                       bet_log>>

DeckReset ==
    /\ deck' \in Deck_reset(deck)
    /\ deal_log' = <<>>
    /\ UNCHANGED <<http, overflow_checks, panicked, community_cards, players, table, bet_log>>

NextDeck ==
    \/ DeckDeal
    \/ DeckReset

SpecDeck == Init /\ [][NextDeck]_vars

(***************************************************************************)
(* SpecHand: hands found for many deals, with players evaluated together   *)
(* by the controller and one at a time.                                    *)
(***************************************************************************)
InitHand ==
    /\ overflow_checks = "either"
    /\ panicked = FALSE
    /\ deck \in HandDecks
    /\ community_cards = <<>>
    /\ players = initialize_players(MainPlayers)
    /\ table = NewTable
    /\ bet_log = <<>>
    /\ deal_log = <<>>
    /\ mutex = Unlocked
    /\ requests = [r \in Requests |-> IdleRequest]

\* Player::evaluate_hand on one player, with the community cards of the
\* moment.
PlayerEvaluateHand ==
    \E i \in 1..Len(players) :
        /\ ~panicked
        /\ players' = [players EXCEPT ![i] = Player_evaluate_hand(@, community_cards)]
        /\ UNCHANGED <<http, overflow_checks, panicked, deck, community_cards, table, bet_log,
                       deal_log>>

NextHand ==
    \/ DealHoleCards
    \/ DealCommunityCards
    \/ ResetDeck
    \/ PlayerEvaluateHand

SpecHand == InitHand /\ [][NextHand]_vars

(***************************************************************************)
(* SpecDealOut: bets, then hole and community deals from one deck until it *)
(* runs out, without a reset.                                              *)
(***************************************************************************)
InitDealOut == Init /\ deck = Shuffle(2)

\* The Deck::deal calls of the log that returned None.
FailedDeals(log) == Len(SelectSeq(log, LAMBDA e : ~e.cards.is_some))

DealOutHoleCards ==
    /\ FailedDeals(deal_log) < MaxFailedDeals
    /\ deal_hole_cards

DealOutCommunityCards ==
    /\ FailedDeals(deal_log) < MaxFailedDeals
    /\ deal_community_cards

DealOutAddBet ==
    \E player_id \in GameBettors, amount \in GameBetAmounts :
        /\ deal_log = <<>>
        /\ Len(bet_log) < MaxDealOutBets
        /\ AddBet(player_id, amount)

NextDealOut ==
    \/ DealOutHoleCards
    \/ DealOutCommunityCards
    \/ DealOutAddBet

SpecDealOut == InitDealOut /\ [][NextDealOut]_vars

(***************************************************************************)
(* SpecFold: one hand from the first deck, with the calls of the           *)
(* controller and Player::fold and Player::sit_out on its players.         *)
(***************************************************************************)
NextFold ==
    \/ DealHoleCards
    \/ DealCommunityCards
    \/ EvaluatePlayerHands
    \/ GameAddBet
    \/ Fold
    \/ SitOut

SpecFold == InitTable /\ [][NextFold]_vars

(***************************************************************************)
(* SpecHttp: the routes of main.rs served for requests that run at the     *)
(* same time.  Every route closure starts with                             *)
(* state.game_controller.lock().unwrap() and keeps the guard until it      *)
(* returns its reply.  A handler takes one step per call it makes on the   *)
(* controller, and deal_community_cards and evaluate_player_hands one step *)
(* per statement, so that another handler could run between any two of     *)
(* them if the lock allowed it.                                            *)
(***************************************************************************)
\* The variables of the controller.
game == <<overflow_checks, panicked, deck, community_cards, players, table, bet_log,
          deal_log>>

\* Mutant of try_lock: the lock is granted while another handler holds it.
try_lock_not_exclusive(m) == TRUE

\* Mutex::lock returns only when no handler holds the lock.
try_lock(m) == m = Unlocked

\* A request arrives and its handler takes the lock.
HttpLock ==
    \E r \in Requests, route \in Routes :
        /\ requests[r].pc = "idle"
        /\ route \in {"deal_hole", "deal_community"} => 52 - Len(deck) < MaxDealt
        /\ try_lock(mutex)
        /\ mutex' = r
        /\ requests' = [requests EXCEPT ![r] = [route |-> route, pc |-> "locked"]]
        /\ UNCHANGED game

\* deal_hole_route: controller.deal_hole_cards()
HttpDealHoleCards ==
    \E r \in Requests :
        /\ requests[r] = [route |-> "deal_hole", pc |-> "locked"]
        /\ LET loop == DealHoleLoop(players, deck, 1)
           IN  /\ players' = loop.players
               /\ deck' = loop.deck
        /\ deal_log' = deal_log \o DealHoleLog(deck, Len(players))
        /\ requests' = [requests EXCEPT ![r].pc = "reply"]
        /\ UNCHANGED <<mutex, overflow_checks, panicked, community_cards, table, bet_log>>

\* deal_community_route: controller.deal_community_cards() up to the
\* assignment of the community cards, or to its Err.
HttpDealCommunityCards ==
    \E r \in Requests :
        /\ requests[r] = [route |-> "deal_community", pc |-> "locked"]
        /\ LET dealt == Deck_deal(deck, 5)
           IN  IF dealt.cards.is_some
               THEN /\ deck' = dealt.deck
                    /\ community_cards' = dealt.cards.value
                    /\ requests' = [requests EXCEPT ![r].pc = "dealt"]
               ELSE /\ UNCHANGED <<deck, community_cards>>
                    /\ requests' = [requests EXCEPT ![r].pc = "reply"]
        /\ deal_log' = Append(deal_log, DealEntry(deck, 5))
        /\ UNCHANGED <<mutex, overflow_checks, panicked, players, table, bet_log>>

\* The loop of evaluate_player_hands, called by deal_community_cards after
\* the assignment and by test_winners_route first of all.
HttpEvaluateLoop ==
    \E r \in Requests :
        /\ \/ requests[r] = [route |-> "deal_community", pc |-> "dealt"]
           \/ requests[r] = [route |-> "test_winners", pc |-> "locked"]
        /\ players' = EvaluateAll(players, community_cards)
        /\ requests' = [requests EXCEPT ![r].pc = "evaluated"]
        /\ UNCHANGED <<mutex, overflow_checks, panicked, deck, community_cards, table,
                       bet_log, deal_log>>

\* The call of resolve_pots that ends evaluate_player_hands.
HttpResolvePots ==
    \E r \in Requests :
        /\ requests[r].pc = "evaluated"
        /\ table' = [table EXCEPT !.pots = resolve_pots(players, table.pots)]
        /\ requests' = [requests EXCEPT ![r].pc = "reply"]
        /\ UNCHANGED <<mutex, overflow_checks, panicked, deck, community_cards, players,
                       bet_log, deal_log>>

\* reset_route: controller.reset_deck()
HttpResetDeck ==
    \E r \in Requests :
        /\ requests[r] = [route |-> "reset", pc |-> "locked"]
        /\ deck' \in Deck_reset(deck)
        /\ deal_log' = <<>>
        /\ community_cards' = <<>>
        /\ players' = [i \in 1..Len(players) |-> Player_reset_for_new_hand(players[i])]
        /\ requests' = [requests EXCEPT ![r].pc = "reply"]
        /\ UNCHANGED <<mutex, overflow_checks, panicked, table, bet_log>>

\* The handler reads the controller for its reply (evaluate_route does
\* nothing else) and returns, which drops the guard and so unlocks the mutex.
HttpReply ==
    \E r \in Requests :
        /\ \/ requests[r].pc = "reply"
           \/ requests[r] = [route |-> "evaluate", pc |-> "locked"]
        /\ mutex' = Unlocked
        /\ requests' = [requests EXCEPT ![r] = IdleRequest]
        /\ UNCHANGED game

NextHttp ==
    \/ HttpLock
    \/ HttpDealHoleCards
    \/ HttpDealCommunityCards
    \/ HttpEvaluateLoop
    \/ HttpResolvePots
    \/ HttpResetDeck
    \/ HttpReply

SpecHttp == Init /\ [][NextHttp]_vars

(***************************************************************************)
(* Properties                                                              *)
(***************************************************************************)
RECURSIVE SumTotals(_)
SumTotals(pots) ==
    IF pots = <<>> THEN 0 ELSE pots[1].total + SumTotals(Tail(pots))

RECURSIVE SumAmounts(_)
SumAmounts(log) ==
    IF log = <<>> THEN 0 ELSE log[1][2] + SumAmounts(Tail(log))

\* The pools get_winners is asked about: every set of the players'
\* identifiers, with or without an identifier no player has.
Pools == SUBSET (PlayerIds \cup {"none"})

\* The players of a pool that have an evaluated hand, as indices.
Contenders(pool) ==
    {i \in 1..Len(players) :
        players[i].player_id \in pool /\ players[i].best_hand.is_some}

HandOf(i) == players[i].best_hand.value

WinnerSet(w) == IF w.is_some THEN Range(w.value) ELSE {}

\* The contenders of a pool whose hand no other contender's hand beats
\* under compare_two_hands.
MaximalUnderOrder(pool) ==
    {players[i].player_id : i \in
        {i \in Contenders(pool) :
            \A j \in Contenders(pool) :
                compare_two_hands(HandOf(i), HandOf(j)) # "Less"}}

\* C1: on a new or reset table, after any sequence of add_bet calls the
\* totals of the pots add up to the amounts passed to the calls.
C1_PotTotalsEqualBets == SumTotals(table.pots) = SumAmounts(bet_log)

\* C2: a player who stopped contributing is not eligible for a pot made of
\* later contributions: after 1, 2 and 3 bet 100 each and 2 and 3 bet 200
\* more, there is a main pot of 300 for {1, 2, 3} and a side pot of 400 for
\* {2, 3}.
C2_SidePotExample ==
    bet_log = << <<"1", 100>>, <<"2", 100>>, <<"3", 100>>, <<"2", 200>>, <<"3", 200>> >>
    => /\ Len(table.pots) = 2
       /\ table.pots[1].total = 300
       /\ table.pots[1].eligible_players = {"1", "2", "3"}
       /\ table.pots[2].total = 400
       /\ table.pots[2].eligible_players = {"2", "3"}

\* C3: get_winners of any pool, and the winners resolve_pots wrote to any
\* pot, are exactly the contenders whose best hand is maximal under the
\* full hand order (category, then kickers).
C3_WinnersAreMaximalHands ==
    /\ \A pool \in Pools :
           WinnerSet(get_winners(players, pool)) = MaximalUnderOrder(pool)
    /\ \A i \in 1..Len(table.pots) :
           table.pots[i].winners.is_some =>
               WinnerSet(table.pots[i].winners)
                   = MaximalUnderOrder(table.pots[i].eligible_players)

\* C4: whenever add_bet creates a pot, the player whose bet created it is
\* among the pot's eligible players.
C4_NewPotIncludesBettor ==
    [][(Len(bet_log') = Len(bet_log) + 1 /\ Len(table'.pots) = Len(table.pots) + 1)
         => bet_log'[Len(bet_log')][1]
                \in table'.pots[Len(table'.pots)].eligible_players]_vars

\* C5: a pot created later has no eligible player that an earlier pot lacks.
C5_EligibilityNonIncreasing ==
    \A i, j \in 1..Len(table.pots) :
        i < j => table.pots[j].eligible_players \subseteq table.pots[i].eligible_players

\* C6: get_winners returns None exactly when no player of the pool has an
\* evaluated best hand (the empty pool included), and a non-empty list
\* otherwise.
C6_NoWinnerIffNoContender ==
    \A pool \in Pools :
        LET w == get_winners(players, pool)
        IN  /\ ~w.is_some <=> Contenders(pool) = {}
            /\ w.is_some => w.value # <<>>

C6_Witness ==
    /\ \E i \in Contenders(PlayerIds) : Len(HandOf(i).cards) = 5
    /\ get_winners(players, PlayerIds).is_some
    /\ ~get_winners(players, {}).is_some
    /\ ~get_winners(players, {"none"}).is_some

\* Two contenders of the pool whose hands compare Equal and that no
\* contender of the pool beats.
TiedAtTop(pool, i, j) ==
    /\ i # j
    /\ i \in Contenders(pool) /\ j \in Contenders(pool)
    /\ compare_two_hands(HandOf(i), HandOf(j)) = "Equal"
    /\ \A k \in Contenders(pool) :
           compare_two_hands(HandOf(k), HandOf(i)) # "Greater"

\* C7: two players of a pool whose best hands compare Equal and that no
\* player of the pool beats are both winners, of get_winners and of every
\* resolved pot.
C7_TiedPlayersBothWin ==
    /\ \A pool \in Pools : \A i, j \in 1..Len(players) :
           TiedAtTop(pool, i, j) =>
               {players[i].player_id, players[j].player_id}
                   \subseteq WinnerSet(get_winners(players, pool))
    /\ \A n \in 1..Len(table.pots) : \A i, j \in 1..Len(players) :
           (table.pots[n].winners.is_some
                /\ TiedAtTop(table.pots[n].eligible_players, i, j)) =>
               {players[i].player_id, players[j].player_id}
                   \subseteq WinnerSet(table.pots[n].winners)

\* A resolved pot with two tied five-card hands at the top, and a third
\* player with a weaker hand in the collection.
C7_Witness ==
    \E n \in 1..Len(table.pots) : \E i, j, k \in 1..Len(players) :
        /\ table.pots[n].winners.is_some
        /\ TiedAtTop(table.pots[n].eligible_players, i, j)
        /\ Len(HandOf(i).cards) = 5
        /\ players[k].best_hand.is_some
        /\ compare_two_hands(HandOf(k), HandOf(i)) = "Less"
        /\ WinnerSet(table.pots[n].winners)
               = {players[i].player_id, players[j].player_id}

\* The players of a pool with an evaluated hand of the highest category
\* among them, in the order of the collection.
TopCategoryWinners(ps, pool) ==
    LET in_pool(p) == p.player_id \in pool /\ p.best_hand.is_some
        top(p) == \A i \in 1..Len(ps) :
                      in_pool(ps[i]) => ps[i].best_hand.value.rank
                                            <= p.best_hand.value.rank
        won == SelectSeq(ps, LAMBDA p : in_pool(p) /\ top(p))
    IN  IF won = <<>> THEN None
        ELSE Some([i \in 1..Len(won) |-> won[i].player_id])

\* C8: the winners resolve_pots writes to a pot are a function of the
\* players and of that pot's eligible players alone, whatever the other
\* pots are: a call of resolve_pots leaves every pot with the winners that
\* function gives, and so do the calls made while dealing and evaluating.
C8_WinnersDependOnOwnPotOnly ==
    /\ [][ResolvePots =>
            \A i \in 1..Len(table'.pots) :
                table'.pots[i].winners
                    = TopCategoryWinners(players', table'.pots[i].eligible_players)]_vars
    /\ [](\A i \in 1..Len(table.pots) :
              table.pots[i].winners.is_some =>
                  table.pots[i].winners
                      = TopCategoryWinners(players, table.pots[i].eligible_players))

\* Several pots resolved together: one without contenders, and two with
\* different winners.
C8_Witness ==
    /\ Len(table.pots) >= 3
    /\ \E i \in Contenders(PlayerIds) : Len(HandOf(i).cards) = 5
    /\ \E i, j \in 1..Len(table.pots) :
           /\ table.pots[i].winners.is_some
           /\ table.pots[j].winners.is_some
           /\ table.pots[i].winners # table.pots[j].winners

\* What resolve_pots must leave alone in the table.
TableFrame ==
    /\ Len(table'.pots) = Len(table.pots)
    /\ \A i \in 1..Len(table.pots) :
           /\ table'.pots[i].total = table.pots[i].total
           /\ table'.pots[i].eligible_players = table.pots[i].eligible_players
    /\ table'.player_bets = table.player_bets
    /\ table'.community_cards = table.community_cards
    /\ table'.min_bet = table.min_bet
    /\ table'.max_bet = table.max_bet

\* C9: resolve_pots changes only the winners of the pots: the pots' number,
\* order, totals and eligible players, the ledger, the deck, the community
\* cards and the players stay as they are.
C9_ResolveChangesOnlyWinners ==
    [][ResolvePots => TableFrame /\ UNCHANGED <<deck, community_cards, players>>]_vars

\* resolve_pots has written winners to a pot that had none.
C9_Witness ==
    \E i \in 1..Len(table.pots) :
        /\ table.pots[i].winners.is_some
        /\ table.pots[i].winners.value # <<>>
        /\ Cardinality(table.pots[i].eligible_players) > Len(table.pots[i].winners.value)

\* C10: hand_strength is set exactly when best_hand is, and is then the
\* category of best_hand.
C10_StrengthMirrorsBestHand ==
    \A i \in 1..Len(players) :
        /\ players[i].hand_strength.is_some <=> players[i].best_hand.is_some
        /\ players[i].best_hand.is_some =>
               players[i].hand_strength = Some(players[i].best_hand.value.rank)

\* C11: every hand stored in a player's best_hand has exactly 5 cards.
C11_BestHandHasFiveCards ==
    \A i \in 1..Len(players) :
        players[i].best_hand.is_some => Len(players[i].best_hand.value.cards) = 5

\* The hands of the five-card subsets of a sequence of distinct cards.
FiveCardHands(cards) ==
    {NewHand(SelectSeq(cards, LAMBDA c : c \in S)) :
        S \in {T \in SUBSET Range(cards) : Cardinality(T) = 5}}

\* C12: whenever a hand is found for a player with 7 distinct cards (2 hole
\* cards and 5 community cards), it is the Hand of 5 of those cards and it
\* compares Greater or Equal, and is of no lower category, than the Hand of
\* every one of the 21 five-card subsets.
C12_BestHandIsMaximal ==
    [][\A i \in 1..Len(players) :
          LET cards == players'[i].hole_cards \o community_cards'
          IN  (players'[i].best_hand # players[i].best_hand
                   /\ Len(cards) = 7 /\ Cardinality(Range(cards)) = 7)
              => LET best == players'[i].best_hand.value
                 IN  /\ best \in FiveCardHands(cards)
                     /\ Cardinality(FiveCardHands(cards)) = 21
                     /\ \A h \in FiveCardHands(cards) :
                            /\ compare_two_hands(best, h) \in {"Greater", "Equal"}
                            /\ best.rank >= h.rank]_vars

\* A player whose 7 cards hold a straight and a flush, with the flush found,
\* and a player whose best of three pairs is decided by the kickers.
C12_Witness ==
    \E i \in 1..Len(players) :
        LET cards == players[i].hole_cards \o community_cards
        IN  /\ Len(cards) = 7
            /\ players[i].best_hand = Some(find_best_hand(cards))
            /\ players[i].best_hand.value.rank = Flush
            /\ \E h \in FiveCardHands(cards) : h.rank = Straight
            /\ \E h \in FiveCardHands(cards) :
                   /\ h.rank = Flush
                   /\ compare_two_hands(players[i].best_hand.value, h) = "Greater"

\* The category of a set of five cards by the nine rules, in their order of
\* precedence; five consecutive ranks are five different ranks that span
\* four steps, with the ace (12) above the king only.
RuleCategory(S) ==
    LET ranks == {c.rank : c \in S}
        of(r) == Cardinality({c \in S : c.rank = r})
        hi == CHOOSE r \in ranks : \A q \in ranks : q <= r
        lo == CHOOSE r \in ranks : \A q \in ranks : q >= r
        same_suit == Cardinality({c.suit : c \in S}) = 1
        consecutive == Cardinality(ranks) = 5 /\ hi - lo = 4
    IN  IF same_suit /\ consecutive THEN StraightFlush
        ELSE IF \E r \in ranks : of(r) = 4 THEN FourOfAKind
        ELSE IF (\E r \in ranks : of(r) = 3) /\ (\E r \in ranks : of(r) = 2)
        THEN FullHouse
        ELSE IF same_suit THEN Flush
        ELSE IF consecutive THEN Straight
        ELSE IF \E r \in ranks : of(r) = 3 THEN ThreeOfAKind
        ELSE IF Cardinality({r \in ranks : of(r) = 2}) = 2 THEN TwoPair
        ELSE IF \E r \in ranks : of(r) = 2 THEN OnePair
        ELSE HighCard

\* C13: the category of every Hand of 5 distinct cards is the one the nine
\* rules give; A 2 3 4 5 is neither a Straight nor a StraightFlush.
C13_CategoryFollowsRules ==
    \A i \in 1..Len(players) :
        (players[i].best_hand.is_some
             /\ Len(players[i].best_hand.value.cards) = 5
             /\ Cardinality(Range(players[i].best_hand.value.cards)) = 5)
        => players[i].best_hand.value.rank
               = RuleCategory(Range(players[i].best_hand.value.cards))

\* The Hand of A 2 3 4 5 of one suit was made, and is a Flush.
C13_Witness ==
    \E i \in 1..Len(players) :
        /\ players[i].best_hand.is_some
        /\ {c.rank : c \in Range(players[i].best_hand.value.cards)} = {12, 0, 1, 2, 3}
        /\ players[i].best_hand.value.rank = Flush

\* The hands the players hold.
StoredHands ==
    {players[i].best_hand.value : i \in {j \in 1..Len(players) : players[j].best_hand.is_some}}

\* The ranks of the cards of a hand, in the order of the cards.
RanksOf(h) == [i \in 1..Len(h.cards) |-> h.cards[i].rank]

\* C14: on the hands the evaluator makes, compare_two_hands is a strict weak
\* order: a hand is Equal to itself, a is Greater than b exactly when b is
\* Less than a, Greater and Equal are transitive, and two hands of the same
\* category and the same ranks are Equal whatever their suits.
C14_CompareIsStrictWeakOrder ==
    \A a, b, c \in StoredHands :
        /\ compare_two_hands(a, a) = "Equal"
        /\ compare_two_hands(a, b) = "Greater" <=> compare_two_hands(b, a) = "Less"
        /\ (compare_two_hands(a, b) = "Greater" /\ compare_two_hands(b, c) = "Greater")
               => compare_two_hands(a, c) = "Greater"
        /\ (compare_two_hands(a, b) = "Equal" /\ compare_two_hands(b, c) = "Equal")
               => compare_two_hands(a, c) = "Equal"
        /\ (a.rank = b.rank /\ RanksOf(a) = RanksOf(b))
               => compare_two_hands(a, b) = "Equal"

\* The sum of the counts of the successful deals of a log.
RECURSIVE SumDealt(_)
SumDealt(log) ==
    IF log = <<>> THEN 0
    ELSE (IF log[1].cards.is_some THEN log[1].count ELSE 0) + SumDealt(Tail(log))

\* The cards the successful deals of a log returned, in the order dealt.
RECURSIVE CardsDealt(_)
CardsDealt(log) ==
    IF log = <<>> THEN <<>>
    ELSE (IF log[1].cards.is_some THEN log[1].cards.value ELSE <<>>)
         \o CardsDealt(Tail(log))

\* C15: a deal succeeds exactly when its count is at most the cards that
\* remained, a successful deal returns exactly count cards, the deck holds
\* 52 cards less the counts of the successful deals, and the cards returned
\* followed by the deck are the new deck as it was: a failed deal changes
\* nothing.
C15_DealTakesCountCards ==
    /\ Deck_remaining(deck) = 52 - SumDealt(deal_log)
    /\ CardsDealt(deal_log) \o deck \in Shuffles
    /\ \A n \in 1..Len(deal_log) :
           LET remained == 52 - SumDealt(SubSeq(deal_log, 1, n - 1))
           IN  /\ deal_log[n].cards.is_some <=> deal_log[n].count <= remained
               /\ deal_log[n].cards.is_some
                      => Len(deal_log[n].cards.value) = deal_log[n].count

\* A deal of too many cards failed between two deals that succeeded, the
\* second of them taking every card that remained.
C15_Witness ==
    /\ Len(deal_log) = 3
    /\ deal_log[1].cards.is_some /\ deal_log[1].count > 0
    /\ ~deal_log[2].cards.is_some
    /\ deal_log[3].cards.is_some /\ deal_log[3].count > 0
    /\ Deck_remaining(deck) = 0

\* The cards the controller holds: the players' hole cards, the community
\* cards and the cards that remain in the deck.
RECURSIVE HoleCardsFrom(_, _)
HoleCardsFrom(ps, i) ==
    IF i > Len(ps) THEN <<>> ELSE ps[i].hole_cards \o HoleCardsFrom(ps, i + 1)

CardsHeld == HoleCardsFrom(players, 1) \o community_cards \o deck

\* C16: no card appears twice among the players' hole cards, the community
\* cards and the cards remaining in the deck.
C16_NoCardTwice == Cardinality(Range(CardsHeld)) = Len(CardsHeld)

\* After a hand was dealt and the deck reset, hole cards were dealt twice, so
\* that the second deal replaced the cards of the first.
C16_Witness ==
    /\ Len(deal_log) = 6
    /\ \E i \in 1..Len(players) :
           /\ players[i].best_hand.is_some
           /\ Len(players[i].best_hand.value.cards) = 5
    /\ \A i \in 1..Len(players) : Len(players[i].hole_cards) = 2
    /\ Len(CardsHeld) = 52 - 12 + 6

\* A full deck: 52 cards, each combination of rank and suit exactly once.
FullDeck(d) ==
    /\ Len(d) = 52
    /\ \A r \in Ranks, s \in Suits :
           Cardinality({i \in 1..Len(d) : d[i] = Card(r, s)}) = 1

\* C17: a reset leaves a full deck of 52 cards, each combination of rank and
\* suit exactly once, whatever was dealt before.
C17_ResetGivesFullDeck == [][ResetDeck => FullDeck(deck')]_vars

\* The deck is full again after a hand was dealt from it and evaluated.
C17_Witness ==
    /\ deal_log = <<>>
    /\ FullDeck(deck)
    /\ \E i \in 1..Len(players) :
           /\ players[i].best_hand.is_some
           /\ Len(players[i].best_hand.value.cards) = 5

\* C18: a reset clears all game state: afterwards the deck is full, there are
\* no community cards, no player has hole cards, a best hand or a hand
\* strength, the table has no pots and no recorded bets, and get_winners
\* finds no winner in any pool.
C18_ResetClearsAllState ==
    [][ResetDeck =>
          /\ FullDeck(deck')
          /\ community_cards' = <<>>
          /\ \A i \in 1..Len(players') :
                 /\ players'[i].hole_cards = <<>>
                 /\ ~players'[i].best_hand.is_some
                 /\ ~players'[i].hand_strength.is_some
          /\ table'.pots = <<>>
          /\ DOMAIN table'.player_bets = {}
          /\ \A pool \in Pools : ~get_winners(players', pool).is_some]_vars

\* C19: once resolve_pots has written winners to a pot, an add_bet changes
\* the total of no pot that has winners, and it leaves no pot without
\* winners that was not there without winners before.
C19_NoBetsAfterResolve ==
    [][(Len(bet_log') = Len(bet_log) + 1
            /\ \E i \in 1..Len(table.pots) : table.pots[i].winners.is_some)
       => /\ \A i \in 1..Len(table.pots) :
                 table.pots[i].winners.is_some
                     => /\ i <= Len(table'.pots)
                        /\ table'.pots[i].total = table.pots[i].total
          /\ \A i \in 1..Len(table'.pots) :
                 ~table'.pots[i].winners.is_some
                     => /\ i <= Len(table.pots)
                        /\ ~table.pots[i].winners.is_some]_vars

\* The identifiers of the players of a pool that have an evaluated hand,
\* after the step.
ContenderIds(ps, pool) ==
    {ps[i].player_id : i \in {j \in 1..Len(ps) :
                                 ps[j].player_id \in pool /\ ps[j].best_hand.is_some}}

\* C20: a call of resolve_pots leaves every pot without winners exactly when
\* no eligible player of the pot has an evaluated hand, and otherwise with a
\* non-empty list without duplicates of eligible players that have one.
C20_ResolvedPotsHaveEligibleWinners ==
    [][ResolvePots =>
          \A i \in 1..Len(table'.pots) :
              LET w == table'.pots[i].winners
                  contenders == ContenderIds(players', table'.pots[i].eligible_players)
              IN  /\ ~w.is_some <=> contenders = {}
                  /\ w.is_some =>
                         /\ w.value # <<>>
                         /\ Cardinality(Range(w.value)) = Len(w.value)
                         /\ Range(w.value) \subseteq contenders]_vars

\* Resolved pots of five-card hands: one that nobody is eligible for, one
\* with a single eligible player, and one that two of its eligible players
\* share.
C20_Witness ==
    /\ \A i \in 1..Len(players) :
           players[i].best_hand.is_some /\ Len(players[i].best_hand.value.cards) = 5
    /\ \E i, j, k \in 1..Len(table.pots) :
           /\ table.pots[i].eligible_players = {} /\ ~table.pots[i].winners.is_some
           /\ Cardinality(table.pots[j].eligible_players) = 1
           /\ table.pots[j].winners.is_some
           /\ Cardinality(table.pots[k].eligible_players) = 2
           /\ table.pots[k].winners.is_some
           /\ Len(table.pots[k].winners.value) = 2

\* C21: a call of deal_community_cards that gets its five cards stores them,
\* leaves every player with the best hand of the player's hole cards and the
\* new community cards, and leaves every pot with the winners that get_winners
\* finds among those new hands; a call that does not get them leaves the
\* community cards, the players and the pots as they were.
C21_CommunityDealEvaluatesThenResolves ==
    [][deal_community_cards =>
        IF Len(deck) >= 5
        THEN /\ community_cards' = SubSeq(deck, 1, 5)
             /\ Len(players') = Len(players)
             /\ \A i \in 1..Len(players) :
                    /\ players'[i].hole_cards = players[i].hole_cards
                    /\ players'[i].best_hand =
                           Some(find_best_hand(players[i].hole_cards
                                               \o SubSeq(deck, 1, 5)))
             /\ Len(table'.pots) = Len(table.pots)
             /\ \A k \in 1..Len(table.pots) :
                    /\ table'.pots[k].total = table.pots[k].total
                    /\ table'.pots[k].eligible_players = table.pots[k].eligible_players
                    /\ table'.pots[k].winners =
                           TopCategoryWinners(players', table.pots[k].eligible_players)
        ELSE /\ community_cards' = community_cards
             /\ players' = players
             /\ table' = table]_vars

\* After bets that made two pots, hole cards and community cards were dealt,
\* the second pot has winners and every player the best hand of the cards of
\* the moment, and a last community deal has failed on the deck that ran out.
C21_Witness ==
    /\ Len(deal_log) > 2
    /\ deal_log[Len(deal_log)].count = 5
    /\ ~deal_log[Len(deal_log)].cards.is_some
    /\ community_cards # <<>>
    /\ Len(table.pots) = 2
    /\ table.pots[2].winners.is_some
    /\ \A i \in 1..Len(players) :
           /\ players[i].best_hand.is_some
           /\ Len(players[i].hole_cards) = 2
           /\ players[i].best_hand.value
                  = find_best_hand(players[i].hole_cards \o community_cards)

\* C22: a call of deal_hole_cards that returns Err leaves every player's hole
\* cards and the deck as they were.
C22_HoleDealAllOrNothing ==
    [][(deal_hole_cards /\ DealHoleLoop(players, deck, 1).result = "Err") =>
        /\ \A i \in 1..Len(players) : players'[i].hole_cards = players[i].hole_cards
        /\ deck' = deck]_vars

\* C23: a call of add_bet keeps every pot that exists at its place in the
\* sequence with the eligible players and the winners it had, never lowers
\* its total, and adds at most one pot, at the end.
C23_PotsAppendOnly ==
    [][(\E player_id \in PlayerIds, amount \in BetAmounts : AddBet(player_id, amount)) =>
        /\ Len(table'.pots) \in {Len(table.pots), Len(table.pots) + 1}
        /\ \A k \in 1..Len(table.pots) :
               /\ table'.pots[k].eligible_players = table.pots[k].eligible_players
               /\ table'.pots[k].winners = table.pots[k].winners
               /\ table'.pots[k].total >= table.pots[k].total]_vars

\* Three pots with three different sets of eligible players exist, and a
\* further bet has been credited to them without a new pot.
C23_Witness ==
    /\ Len(table.pots) = 3
    /\ Len(bet_log) > 3
    /\ table.pots[1].eligible_players = {}
    /\ table.pots[2].eligible_players # {}
    /\ table.pots[3].eligible_players # table.pots[2].eligible_players
    /\ SumTotals(table.pots) = SumAmounts(bet_log)

\* C24: every player holds no hole cards or exactly two, and no step replaces
\* the hole cards a player holds by other cards: they stay or are cleared.
C24_HoleCardsAssignedOnce ==
    [][\A i \in 1..Len(players) :
          /\ Len(players[i].hole_cards) \in {0, 2}
          /\ Len(players'[i].hole_cards) \in {0, 2}
          /\ players[i].hole_cards # <<>> =>
                 players'[i].hole_cards \in {players[i].hole_cards, <<>>}]_vars

\* The community cards of the moment, if any, have been evaluated for every
\* player and every pot has the winners of those evaluations.
Settled ==
    community_cards # <<>> =>
        /\ \A i \in 1..Len(players) :
               /\ players[i].best_hand.is_some
               /\ Len(players[i].best_hand.value.cards) = 5
        /\ table.pots = resolve_pots(players, table.pots)

\* C25: a handler that has started and not yet returned holds the mutex, so
\* at most one handler is inside the controller at a time; and whenever a
\* handler is about to call or read the controller, or has returned, the
\* community cards that are dealt have been evaluated and the pots resolved.
C25_HandlersSerialized ==
    /\ \A r \in Requests : requests[r].pc # "idle" => mutex = r
    /\ Cardinality({r \in Requests : requests[r].pc # "idle"}) <= 1
    /\ (\A r \in Requests : requests[r].pc \in {"idle", "locked", "reply"}) => Settled
    /\ (\A r \in Requests : requests[r].pc = "idle") => mutex = Unlocked

\* One handler is between the assignment of the community cards and the
\* evaluation, with a player that has no best hand yet, and holds the lock;
\* the other request has not got in.
C25_Witness ==
    /\ \E r \in Requests :
           /\ requests[r] = [route |-> "deal_community", pc |-> "dealt"]
           /\ mutex = r
           /\ \A q \in Requests \ {r} : requests[q].pc = "idle"
    /\ ~Settled
    /\ \E i \in 1..Len(players) : Len(players[i].hole_cards) = 2

\* C26: the cards a player's hand is evaluated from, the hole cards and the
\* community cards, are at most seven, so find_best_hand goes through at
\* most 21 combinations of five.
C26_AtMostSevenCards ==
    \A i \in 1..Len(players) :
        LET n == Len(players[i].hole_cards \o community_cards)
        IN  /\ n <= 7
            /\ Len(Combinations(1, n, 5)) <= 21

\* Every player has been evaluated on seven cards, which give 21
\* combinations.
C26_Witness ==
    /\ Len(community_cards) = 5
    /\ \A i \in 1..Len(players) :
           /\ Len(players[i].hole_cards) = 2
           /\ players[i].best_hand
                  = Some(find_best_hand(players[i].hole_cards \o community_cards))
    /\ Len(Combinations(1, 7, 5)) = 21

\* C27: no call of add_bet has computed max_bet - bet with bet above max_bet:
\* none has panicked on the subtraction and none has wrapped it.
C27_AddBetNeverUnderflows ==
    /\ ~panicked
    /\ overflow_checks = "either"

\* The players that have folded or are sitting out.
OutOfHand ==
    {players[i].player_id : i \in
        {j \in 1..Len(players) : ~players[j].is_in_play \/ players[j].is_sitting_out}}

C29_NoOrphanedPots ==
    \A k \in 1..Len(table.pots) :
        /\ table.pots[k].eligible_players # {}
        /\ ((\A i \in 1..Len(players) : players[i].best_hand.is_some)
                /\ table.pots[k].total > 0) =>
               get_winners(players, table.pots[k].eligible_players).is_some
====
